---- MODULE Spec2Model ----
(* Model of machine-learning/scripts/2-rf_reg_random-cv.py:                 *)
(* the cache-guarded randomized search (search_random_params), the          *)
(* partitioner (split_train_test) and the entry point (main).               *)
EXTENDS Integers, Sequences, FiniteSets, TLC

VARIABLES
    store,      \* artifact store: path -> pickled blob or Absent
    writable,   \* whether the storage location currently accepts writes
    pc,         \* position inside search_random_params
    args,       \* arguments of the current/last call of search_random_params
    gs,         \* the local RandomizedSearchCV object (NoObj before fit)
    ret,        \* value returned by the call (NoObj if none)
    err,        \* exception that ended the call ("" if none)
    fits,       \* number of gs.fit invocations in the current call
    writes,     \* number of joblib.dump invocations that wrote in the current call
    store0,     \* the store as it was when the current call was entered
    prev,       \* key/result/hit flag of the previously finished call
    ncalls      \* number of calls made so far

VARIABLES
    sargs,      \* arguments of the observed invocations of split_train_test
    sres0,      \* outcome of the first invocation with sargs (NoObj before it)
    sres1,      \* outcome of the latest repeated invocation with sargs
    sother,     \* outcome of the latest unseeded invocation on the same data
    npGlobal,   \* state of numpy's global random generator
    nsplit      \* number of invocations of split_train_test so far

VARIABLES
    mpc,        \* position inside main ("off" when main is not running)
    ti,         \* index of the tag being processed
    df_orig,    \* the frame read by load_csv for the current tag
    df,         \* the working frame (filtered, then with the encoded column)
    features,   \* the feature column names
    parts,      \* the Split Result of the current tag
    encoded,    \* every value the encoding has been applied to, in order
    merr,       \* exception that aborted main ("" if none)
    trace       \* the stages executed so far, as <<tag, stage>>

cacheVars == <<store, writable, pc, args, gs, ret, err, fits, writes, store0, prev, ncalls>>
splitVars == <<sargs, sres0, sres1, sother, npGlobal, nsplit>>
mainVars == <<mpc, ti, df_orig, df, features, parts, encoded, merr>>

vars == <<cacheVars, splitVars, mainVars, trace>>

----------------------------------------------------------------------------
(* Bounds *)
NumTrainSets == 2
NumSeeds == 1
MaxCalls == 3
MaxRows == 4
MaxSplits == 3
MaxCsvRows == 3

(* Program constants *)
SEED == 17
SAVE_DIR == <<"..", "grid-search-results">>
DefaultFilename == "rf_reg.pkl"
DefaultBestName == "rf_reg_best-estm.pkl"

----------------------------------------------------------------------------
(* Objects and the artifact store *)
NoObj == [kind |-> "none"]
Absent == [kind |-> "absent"]

\* os.path.join(save_dir, name)
PathJoin(dir, name) == dir \o <<name>>

\* RandomizedSearchCV(...).fit(X_train, Y_train): the fitted search object is a
\* function of the training data and of random_state.
Search(train, seed) == [kind |-> "search", train |-> train, seed |-> seed]

\* gs.best_estimator_
BestEstimator(g) == [kind |-> "estimator", train |-> g.train, seed |-> g.seed]

\* joblib.dump serialises an object to a blob; joblib.load deserialises it.
Pickle(obj) == [kind |-> "pickle", payload |-> obj]
Unpickle(blob) == blob.payload

\* os.path.exists
Exists(st, path) == st[path] # Absent

TrainSets == {[X |-> <<i>>, Y |-> <<i>>] : i \in 1..NumTrainSets}
SearchSeeds == SEED..(SEED + NumSeeds - 1)
Names == {DefaultFilename, DefaultBestName}
Dirs == {SAVE_DIR}
Tags == <<"op", "rc">>

\* tag + "_steady"
SteadyName(tag) == IF tag = "op" THEN "op_steady" ELSE "rc_steady"
\* "rf_reg_" + tag + ".pkl"
PklName(tag) == IF tag = "op" THEN "rf_reg_op.pkl" ELSE "rf_reg_rc.pkl"
\* "rf_reg_" + tag + "-best-estm.pkl"
BestPklName(tag) == IF tag = "op" THEN "rf_reg_op-best-estm.pkl"
                    ELSE "rf_reg_rc-best-estm.pkl"

MainPaths == UNION {{PathJoin(PathJoin(SAVE_DIR, SteadyName(Tags[i])), PklName(Tags[i])),
                     PathJoin(PathJoin(SAVE_DIR, SteadyName(Tags[i])), BestPklName(Tags[i]))}
                    : i \in 1..Len(Tags)}
Paths == {PathJoin(d, n) : d \in Dirs, n \in Names} \cup MainPaths

ArgSet == [train : TrainSets, seed : SearchSeeds, filename : Names,
           best_name : Names, save_dir : Dirs, save_best : BOOLEAN,
           remake : BOOLEAN]

\* calls that all use save_best = true and the default pair of distinct keys
FixedArgSet == {a \in ArgSet : a.save_best /\ a.filename = DefaultFilename
                               /\ a.best_name = DefaultBestName}

NoArgs == [train |-> [X |-> <<>>, Y |-> <<>>], seed |-> SEED,
           filename |-> DefaultFilename, best_name |-> DefaultBestName,
           save_dir |-> SAVE_DIR, save_best |-> TRUE, remake |-> FALSE]

PrimaryKey(a) == PathJoin(a.save_dir, a.filename)
BestKey(a) == PathJoin(a.save_dir, a.best_name)

NoPrev == [key |-> <<>>, ret |-> NoObj, hit |-> FALSE]

----------------------------------------------------------------------------
(* Data frames: a sequence of column names and a sequence of rows; a row    *)
(* carries its index label and one value per column.                        *)

\* positions of the columns called name
ColIdx(frame, name) == {i \in 1..Len(frame.columns) : frame.columns[i] = name}

RECURSIVE SetToSeq(_)
\* the elements of a finite set of integers in increasing order
SetToSeq(S) ==
    IF S = {} THEN <<>>
    ELSE LET m == CHOOSE x \in S : \A y \in S : x <= y
         IN <<m>> \o SetToSeq(S \ {m})

RECURSIVE Flatten(_)
Flatten(ss) == IF ss = <<>> THEN <<>> ELSE Head(ss) \o Flatten(Tail(ss))

\* df[target].values.reshape(-1, 1): one entry per (row, matching column)
TargetColumn(frame, target) ==
    LET idx == SetToSeq(ColIdx(frame, target))
    IN Flatten([r \in 1..Len(frame.rows) |->
                  [j \in 1..Len(idx) |-> frame.rows[r].vals[idx[j]]]])

\* df[features]: the rows restricted to the feature columns, labels kept
FeatureFrame(frame, feats) ==
    [r \in 1..Len(frame.rows) |->
       [index |-> frame.rows[r].index,
        vals |-> [j \in 1..Len(feats) |->
                    frame.rows[r].vals[CHOOSE i \in ColIdx(frame, feats[j]) : TRUE]]]]

----------------------------------------------------------------------------
(* sklearn.model_selection.train_test_split as called on lines 72-74 *)

RngMod == 16
PyNone == -1

\* one step of the pseudo-random generator
RngStep(s) == (5 * s + 3) % RngMod

\* RandomState(seed)
RngSeeded(seed) == seed % RngMod

Swap(p, i, j) == [p EXCEPT ![i] = p[j], ![j] = p[i]]

RECURSIVE Shuffle(_, _, _)
\* Fisher-Yates shuffle of p[1..i], drawing from generator state s
Shuffle(p, i, s) ==
    IF i <= 1 THEN [perm |-> p, rng |-> s]
    ELSE LET s1 == RngStep(s)
         IN Shuffle(Swap(p, i, (s1 % i) + 1), i - 1, s1)

\* rng.permutation(n)
Permutation(n, s) == Shuffle([i \in 1..n |-> i], n, s)

\* ceil(test_size * n) for test_size = num/den
NumTest(n, test_size) == (test_size[1] * n + test_size[2] - 1) \div test_size[2]

Take(seq, idx) == [i \in 1..Len(idx) |-> seq[idx[i]]]

SplitError(e, g) == [out |-> [err |-> e], rng |-> g]

\* variant of TrainTestSplit: random_state is dropped, the global generator shuffles
TrainTestSplitGlobalRng(X, Y, test_size, random_state, g) ==
    LET n == Len(X)
        n_test == NumTest(n, test_size)
        n_train == n - n_test
        sh == Permutation(n, g)
        test == SubSeq(sh.perm, 1, n_test)
        train == SubSeq(sh.perm, n_test + 1, n)
    IN IF Len(Y) # n THEN SplitError("ValueError", g)
       ELSE IF n_train = 0 THEN SplitError("ValueError", g)
       ELSE [out |-> [err |-> "",
                      X_train |-> Take(X, train), X_test |-> Take(X, test),
                      Y_train |-> Take(Y, train), Y_test |-> Take(Y, test)],
             rng |-> sh.rng]

\* train_test_split(X, Y, test_size=..., random_state=...); g is the state of
\* the global generator, used only when random_state is None
TrainTestSplit(X, Y, test_size, random_state, g) ==
    LET n == Len(X)
        n_test == NumTest(n, test_size)
        n_train == n - n_test
        sh == Permutation(n, IF random_state = PyNone THEN g
                                ELSE RngSeeded(random_state))
        test == SubSeq(sh.perm, 1, n_test)
        train == SubSeq(sh.perm, n_test + 1, n)
    IN IF Len(Y) # n THEN SplitError("ValueError", g)
       ELSE IF n_train = 0 THEN SplitError("ValueError", g)
       ELSE [out |-> [err |-> "",
                      X_train |-> Take(X, train), X_test |-> Take(X, test),
                      Y_train |-> Take(Y, train), Y_test |-> Take(Y, test)],
             rng |-> IF random_state = PyNone THEN sh.rng ELSE g]

----------------------------------------------------------------------------
(* split_train_test, lines 47-85 *)

\* variant of SplitTrainTest: Y_train and Y_test are swapped in the return
SplitTrainTestSwapped(frame, target, feats, test_size, random_state, check_shape, g) ==
    IF Len(feats) = 0 THEN SplitError("AssertionError", g)
    ELSE IF ColIdx(frame, target) = {} THEN SplitError("KeyError", g)
    ELSE
      LET Y == TargetColumn(frame, target)
          X == FeatureFrame(frame, feats)
          r == TrainTestSplit(X, Y, test_size, random_state, g)
      IN IF r.out.err # "" THEN r
         ELSE IF check_shape /\ Len(r.out.X_train) # Len(r.out.Y_train)
           THEN SplitError("ValueError", r.rng)
         ELSE [r EXCEPT !.out.Y_train = r.out.Y_test, !.out.Y_test = r.out.Y_train]

SplitTrainTest(frame, target, feats, test_size, random_state, check_shape, g) ==
    IF Len(feats) = 0 THEN SplitError("AssertionError", g)
    ELSE IF ColIdx(frame, target) = {} THEN SplitError("KeyError", g)
    ELSE
      LET Y == TargetColumn(frame, target)
          X == FeatureFrame(frame, feats)
          r == TrainTestSplit(X, Y, test_size, random_state, g)
      IN IF r.out.err # "" THEN r
         ELSE IF check_shape /\ Len(r.out.X_train) # Len(r.out.Y_train)
           THEN SplitError("ValueError", r.rng)
         ELSE r

SplitOf(a, g) ==
    SplitTrainTest(a.df, a.target, a.features, a.test_size, a.random_state,
                   a.check_shape, g)

\* the frames the partitioner is exercised on: n rows, values fixed by the
\* row label, with the target column present once or twice
Frame(cols, n) ==
    [columns |-> cols,
     rows |-> [r \in 1..n |-> [index |-> r,
                               vals |-> [c \in 1..Len(cols) |-> 10 * r + c]]]]

SplitFrames == {Frame(cols, n) : cols \in {<<"f", "y">>, <<"f", "y", "y">>},
                                 n \in 0..MaxRows}
TestSizes == {<<1, 10>>, <<1, 2>>, <<3, 4>>}
SplitSeeds == {SEED, SEED + 1, PyNone}

SplitArgSet == [df : SplitFrames, target : {"y"}, features : {<<>>, <<"f">>},
                test_size : TestSizes, random_state : SplitSeeds,
                check_shape : BOOLEAN]

\* first invocation with the observed arguments
SplitFirst ==
    /\ sres0 = NoObj
    /\ nsplit < MaxSplits
    /\ LET r == SplitOf(sargs, npGlobal)
       IN /\ sres0' = r.out
          /\ npGlobal' = r.rng
    /\ nsplit' = nsplit + 1
    /\ UNCHANGED <<sargs, sres1, sother, cacheVars, mainVars, trace>>

\* a later invocation with the same arguments
SplitAgain ==
    /\ sres0 # NoObj
    /\ nsplit < MaxSplits
    /\ LET r == SplitOf(sargs, npGlobal)
       IN /\ sres1' = r.out
          /\ npGlobal' = r.rng
    /\ nsplit' = nsplit + 1
    /\ UNCHANGED <<sargs, sres0, sother, cacheVars, mainVars, trace>>

\* an invocation on the same data with random_state=None in between
SplitUnseeded ==
    /\ nsplit < MaxSplits
    /\ LET r == SplitOf([sargs EXCEPT !.random_state = PyNone], npGlobal)
       IN /\ sother' = r.out
          /\ npGlobal' = r.rng
    /\ nsplit' = nsplit + 1
    /\ UNCHANGED <<sargs, sres0, sres1, cacheVars, mainVars, trace>>

SplitIdle ==
    /\ sargs = [df |-> Frame(<<"f", "y">>, 0), target |-> "y", features |-> <<"f">>,
                test_size |-> <<1, 10>>, random_state |-> SEED, check_shape |-> TRUE]
    /\ sres0 = NoObj
    /\ sres1 = NoObj
    /\ sother = NoObj
    /\ npGlobal = 0
    /\ nsplit = 0

----------------------------------------------------------------------------
(* search_random_params *)

\* the stage log kept while main is running
Logged(ev) == IF mpc = "off" THEN trace ELSE Append(trace, <<Tags[ti], ev>>)

\* variant of CacheHit: remake is not consulted
CacheHitIgnoresRemake(st, a) == Exists(st, PrimaryKey(a))

\* line 129: the cache-hit condition
CacheHit(st, a) == ~a.remake /\ Exists(st, PrimaryKey(a))

\* variant of Enter: the cache check is missing, every call searches
EnterNoCache(a) ==
    /\ pc = "idle"
    /\ args' = a
    /\ store0' = store
    /\ fits' = 0
    /\ writes' = 0
    /\ gs' = NoObj
    /\ err' = ""
    /\ ret' = NoObj
    /\ pc' = "fit"
    /\ UNCHANGED <<store, writable, prev, splitVars>>

\* lines 129-130: entry of the call; on a cache hit load and return
Enter(a) ==
    /\ pc = "idle"
    /\ args' = a
    /\ store0' = store
    /\ fits' = 0
    /\ writes' = 0
    /\ gs' = NoObj
    /\ err' = ""
    /\ IF CacheHit(store, a)
         THEN /\ ret' = Unpickle(store[PrimaryKey(a)])
              /\ pc' = "returned"
         ELSE /\ ret' = NoObj
              /\ pc' = "fit"
    /\ UNCHANGED <<store, writable, prev, splitVars>>

\* variant of Fit: the search object is dumped before it is fitted
FitAfterDump ==
    /\ pc = "fit"
    /\ trace' = Logged("fit")
    /\ fits' = fits + 1
    /\ store' = [store EXCEPT ![PrimaryKey(args)] = Pickle([kind |-> "unfitted"])]
    /\ \E ok \in BOOLEAN :
         IF ok
           THEN /\ gs' = Search(args.train, args.seed)
                /\ pc' = IF args.save_best THEN "dump_best" ELSE "dump_full"
                /\ err' = err
           ELSE /\ gs' = gs
                /\ pc' = "raised"
                /\ err' = "FitError"
    /\ UNCHANGED <<writable, args, ret, writes, store0, prev, ncalls, splitVars, mainVars>>

\* lines 132-143: build the search and fit it; the fit may raise
Fit ==
    /\ pc = "fit"
    /\ trace' = Logged("fit")
    /\ fits' = fits + 1
    /\ \E ok \in BOOLEAN :
         IF ok
           THEN /\ gs' = Search(args.train, args.seed)
                /\ pc' = IF args.save_best THEN "dump_best" ELSE "dump_full"
                /\ err' = err
           ELSE /\ gs' = gs
                /\ pc' = "raised"
                /\ err' = "FitError"
    /\ UNCHANGED <<store, writable, args, ret, writes, store0, prev, ncalls, splitVars, mainVars>>

\* variant of DumpBest: the search object is written instead of its best estimator
DumpBestStoresSearch ==
    /\ pc = "dump_best"
    /\ trace' = Logged("dump_best")
    /\ IF writable
         THEN /\ store' = [store EXCEPT ![BestKey(args)] = Pickle(gs)]
              /\ writes' = writes + 1
              /\ pc' = "dump_full"
              /\ err' = err
         ELSE /\ pc' = "raised"
              /\ err' = "IOError"
              /\ UNCHANGED <<store, writes>>
    /\ UNCHANGED <<writable, args, gs, ret, fits, store0, prev, ncalls, splitVars, mainVars>>

\* variant of DumpBest: a failed write of the best estimator is swallowed
DumpBestSwallowsError ==
    /\ pc = "dump_best"
    /\ trace' = Logged("dump_best")
    /\ IF writable
         THEN /\ store' = [store EXCEPT ![BestKey(args)] = Pickle(BestEstimator(gs))]
              /\ writes' = writes + 1
         ELSE UNCHANGED <<store, writes>>
    /\ pc' = "dump_full"
    /\ UNCHANGED <<writable, args, gs, ret, err, fits, store0, prev, ncalls, splitVars, mainVars>>

\* lines 145-147: persist the best estimator
DumpBest ==
    /\ pc = "dump_best"
    /\ trace' = Logged("dump_best")
    /\ IF writable
         THEN /\ store' = [store EXCEPT ![BestKey(args)] = Pickle(BestEstimator(gs))]
              /\ writes' = writes + 1
              /\ pc' = "dump_full"
              /\ err' = err
         ELSE /\ pc' = "raised"
              /\ err' = "IOError"
              /\ UNCHANGED <<store, writes>>
    /\ UNCHANGED <<writable, args, gs, ret, fits, store0, prev, ncalls, splitVars, mainVars>>

\* variant of DumpFull: the best estimator is written at the primary key
DumpFullStoresBest ==
    /\ pc = "dump_full"
    /\ trace' = Logged("dump_full")
    /\ IF writable
         THEN /\ store' = [store EXCEPT ![PrimaryKey(args)] = Pickle(BestEstimator(gs))]
              /\ writes' = writes + 1
              /\ pc' = "reload"
              /\ err' = err
         ELSE /\ pc' = "raised"
              /\ err' = "IOError"
              /\ UNCHANGED <<store, writes>>
    /\ UNCHANGED <<writable, args, gs, ret, fits, store0, prev, ncalls, splitVars, mainVars>>

\* line 149: persist the full search result
DumpFull ==
    /\ pc = "dump_full"
    /\ trace' = Logged("dump_full")
    /\ IF writable
         THEN /\ store' = [store EXCEPT ![PrimaryKey(args)] = Pickle(gs)]
              /\ writes' = writes + 1
              /\ pc' = "reload"
              /\ err' = err
         ELSE /\ pc' = "raised"
              /\ err' = "IOError"
              /\ UNCHANGED <<store, writes>>
    /\ UNCHANGED <<writable, args, gs, ret, fits, store0, prev, ncalls, splitVars, mainVars>>

\* line 150: return what joblib.load reads back from the primary key
Reload ==
    /\ pc = "reload"
    /\ trace' = Logged("reload")
    /\ ret' = Unpickle(store[PrimaryKey(args)])
    /\ pc' = "returned"
    /\ UNCHANGED <<store, writable, args, gs, err, fits, writes, store0, prev, ncalls, splitVars, mainVars>>

\* the process is terminated while the call is running
Kill ==
    /\ pc \in {"fit", "dump_best", "dump_full", "reload"}
    /\ pc' = "killed"
    /\ err' = "Terminated"
    /\ UNCHANGED trace
    /\ UNCHANGED <<store, writable, args, gs, ret, fits, writes, store0, prev, ncalls, splitVars, mainVars>>

\* the storage location becomes writable / unwritable
Chmod ==
    /\ writable' = ~writable
    /\ UNCHANGED trace
    /\ UNCHANGED <<store, pc, args, gs, ret, err, fits, writes, store0, prev, ncalls, splitVars, mainVars>>

\* the caller takes the outcome and the frame of the call is gone; the next
\* call can start
Finish ==
    /\ pc \in {"returned", "raised", "killed"}
    /\ pc' = "idle"
    /\ prev' = [key |-> PrimaryKey(args), ret |-> ret,
                hit |-> pc = "returned" /\ CacheHit(store0, args)]
    /\ args' = NoArgs
    /\ gs' = NoObj
    /\ ret' = NoObj
    /\ err' = ""
    /\ fits' = 0
    /\ writes' = 0
    /\ store0' = store
    /\ UNCHANGED trace
    /\ UNCHANGED <<store, writable, ncalls, splitVars, mainVars>>

\* a caller invokes search_random_params with arbitrary arguments
Call ==
    /\ ncalls < MaxCalls
    /\ ncalls' = ncalls + 1
    /\ \E a \in ArgSet : Enter(a)
    /\ UNCHANGED <<mainVars, trace>>

\* a caller that always uses save_best = true and one pair of distinct keys
CallFixed ==
    /\ ncalls < MaxCalls
    /\ ncalls' = ncalls + 1
    /\ \E a \in FixedArgSet : Enter(a)
    /\ UNCHANGED <<mainVars, trace>>

----------------------------------------------------------------------------
(* main, lines 153-222 *)

\* loop-tof values are counted in units of 1e-5, so that 1e-4 is 10
Threshold == 10
TofValues == {-10, -9, 0, 10}
MinusInf == -1000

Abs(v) == IF v < 0 THEN -v ELSE v

RECURSIVE Log2Floor(_)
Log2Floor(n) == IF n <= 1 THEN 0 ELSE 1 + Log2Floor(n \div 2)

\* line 176: lambda x: np.log(np.abs(x)); the logarithm of 0 is -inf
LogAbs(v) == IF v = 0 THEN MinusInf ELSE Log2Floor(Abs(v))

\* variant of Condition: the sign of the second bound is wrong
ConditionSignSlip(v) == v <= -Threshold \/ v >= -Threshold

\* line 169: (df["loop-tof"] <= -1e-4) | (df["loop-tof"] >= 1e-4)
Condition(v) == v <= -Threshold \/ v >= Threshold

Column(frame, name) == CHOOSE i \in ColIdx(frame, name) : TRUE

\* lines 169-170: df_copy.loc[condition]
FilterRows(frame) ==
    [frame EXCEPT !.rows =
        SelectSeq(frame.rows,
                  LAMBDA r : Condition(r.vals[Column(frame, "loop-tof")]))]

\* lines 31-44: df[new_target_name] = df[target].map(encoding); the lambda is
\* passed as a function on the values
MapTargetValues(frame, target, new_target_name, encoding) ==
    LET t == Column(frame, target)
        new(r) == encoding[frame.rows[r].vals[t]]
    IN IF ColIdx(frame, new_target_name) = {}
         THEN [columns |-> Append(frame.columns, new_target_name),
               rows |-> [r \in 1..Len(frame.rows) |->
                           [frame.rows[r] EXCEPT !.vals = Append(@, new(r))]]]
         ELSE [columns |-> frame.columns,
               rows |-> [r \in 1..Len(frame.rows) |->
                           [frame.rows[r] EXCEPT
                              !.vals[Column(frame, new_target_name)] = new(r)]]]

\* the values of a column, in row order
ColumnValues(frame, name) ==
    [r \in 1..Len(frame.rows) |-> frame.rows[r].vals[Column(frame, name)]]

\* lines 164-167: the columns that are neither target nor non-feature
FeaturesOf(columns) ==
    SelectSeq(columns, LAMBDA c : c \notin {"loop-tof", "steady-state-condition"})

\* the csv files main may find: three column layouts, up to MaxCsvRows rows
CsvLayouts == {<<"f1", "loop-tof", "steady-state-condition">>,
               <<"loop-tof", "steady-state-condition">>,
               <<"f1", "steady-state-condition">>}

CsvFrame(cols, tofs) ==
    [columns |-> cols,
     rows |-> [r \in 1..Len(tofs) |->
                 [index |-> r - 1,
                  vals |-> [c \in 1..Len(cols) |->
                              IF cols[c] = "loop-tof" THEN tofs[r] ELSE r]]]]

CsvFiles == {CsvFrame(cols, tofs) :
               cols \in CsvLayouts,
               tofs \in UNION {[1..n -> TofValues] : n \in 0..MaxCsvRows}}

\* lines 204-220: the arguments main passes to search_random_params
MainArgs(tag, p) ==
    [train |-> [X |-> p.X_train, Y |-> p.Y_train], seed |-> SEED,
     filename |-> PklName(tag), best_name |-> BestPklName(tag),
     save_dir |-> PathJoin(SAVE_DIR, SteadyName(tag)),
     save_best |-> TRUE, remake |-> TRUE]

\* variant of Raise: the failure is caught per tag and the loop goes on
RaiseSkipsTag(e) ==
    /\ merr' = e
    /\ IF ti < Len(Tags)
         THEN /\ ti' = ti + 1
              /\ mpc' = "load"
         ELSE /\ ti' = ti
              /\ mpc' = "aborted"

\* an unhandled exception leaves main: the run is over
Raise(e) ==
    /\ mpc' = "aborted"
    /\ merr' = e
    /\ ti' = ti

\* line 161-167: load_csv, copy, feature list
MainLoad ==
    /\ mpc = "load"
    /\ trace' = Append(trace, <<Tags[ti], "load">>)
    /\ \/ /\ Raise("FileNotFoundError")
          /\ UNCHANGED <<df_orig, features>>
       \/ \E f \in CsvFiles :
            /\ df_orig' = f
            /\ features' = FeaturesOf(f.columns)
            /\ mpc' = "filter"
            /\ UNCHANGED <<ti, merr>>
    /\ UNCHANGED <<df, parts, encoded, cacheVars, splitVars>>

\* lines 169-170: the Filtering Stage
MainFilter ==
    /\ mpc = "filter"
    /\ trace' = Append(trace, <<Tags[ti], "filter">>)
    /\ IF ColIdx(df_orig, "loop-tof") = {}
         THEN /\ Raise("KeyError")
              /\ df' = df
         ELSE /\ df' = FilterRows(df_orig)
              /\ mpc' = "encode"
              /\ UNCHANGED <<ti, merr>>
    /\ UNCHANGED <<df_orig, features, parts, encoded, cacheVars, splitVars>>

\* lines 172-177: the Target Encoder
MainEncode ==
    /\ mpc = "encode"
    /\ trace' = Append(trace, <<Tags[ti], "encode">>)
    /\ encoded' = encoded \o ColumnValues(df, "loop-tof")
    /\ df' = MapTargetValues(df, "loop-tof", "log-loop-tof",
                             [x \in TofValues |-> LogAbs(x)])
    /\ mpc' = "split"
    /\ UNCHANGED <<ti, merr, df_orig, features, parts, cacheVars, splitVars>>

\* lines 179-188: the Partitioner; Y is kept as the flat sequence of its
\* entries, which is what ravel() on line 188 yields for the (n, 1) arrays
MainSplit ==
    /\ mpc = "split"
    /\ trace' = Append(trace, <<Tags[ti], "split">>)
    /\ LET r == SplitTrainTest(df, "log-loop-tof", features, <<1, 10>>, SEED,
                               TRUE, npGlobal)
       IN IF r.out.err # ""
            THEN /\ Raise(r.out.err)
                 /\ parts' = parts
            ELSE /\ parts' = r.out
                 /\ mpc' = "search"
                 /\ UNCHANGED <<ti, merr>>
    /\ UNCHANGED <<df_orig, df, features, encoded, cacheVars, splitVars>>

\* lines 190-220: build model, cv, param_dists and call search_random_params
MainSearch ==
    /\ mpc = "search"
    /\ trace' = Append(trace, <<Tags[ti], "search">>)
    /\ Enter(MainArgs(Tags[ti], parts))
    /\ mpc' = "in_search"
    /\ UNCHANGED <<ncalls, ti, merr, df_orig, df, features, parts, encoded>>

\* line 204: rs receives the result; next tag, or return None at line 222
MainNext ==
    /\ mpc = "in_search"
    /\ pc = "returned"
    /\ pc' = "idle"
    /\ IF ti < Len(Tags)
         THEN /\ ti' = ti + 1
              /\ mpc' = "load"
         ELSE /\ ti' = ti
              /\ mpc' = "done"
    /\ UNCHANGED <<store, writable, args, gs, ret, err, fits, writes, store0,
                   prev, ncalls, splitVars, df_orig, df, features, parts,
                   encoded, merr, trace>>

\* an exception raised inside search_random_params propagates out of main
MainPropagate ==
    /\ mpc = "in_search"
    /\ pc \in {"raised", "killed"}
    /\ pc' = "idle"
    /\ Raise(err)
    /\ UNCHANGED <<store, writable, args, gs, ret, err, fits, writes, store0,
                   prev, ncalls, splitVars, df_orig, df, features, parts,
                   encoded, trace>>

----------------------------------------------------------------------------
(* Properties *)

ThisKey == PrimaryKey(args)
FreshSearch == Search(args.train, args.seed)
\* the call that has just returned was served from the cache
WasHit == ~args.remake /\ store0[ThisKey] # Absent

\* C1: a call with remake = false that finds an artifact at its key returns
\* the content of that artifact, fits nothing and writes nothing; consecutive
\* such calls on one key return equal results.
CacheHitReturnsStored ==
    (pc = "returned" /\ WasHit) =>
        /\ ret = Unpickle(store0[ThisKey])
        /\ fits = 0
        /\ writes = 0
        /\ store = store0
        /\ (prev.hit /\ prev.key = ThisKey => ret = prev.ret)

CacheHitTwice ==
    /\ pc = "returned"
    /\ WasHit
    /\ prev.hit
    /\ prev.key = ThisKey
    /\ ret.train # args.train

\* C2: a call with remake = true fits, and when it returns the artifact at its
\* key is the result of that new search, whether or not one was there before.
RemakeRerunsAndOverwrites ==
    args.remake =>
        /\ (pc \in {"dump_best", "dump_full", "reload", "returned", "raised"}
              => fits = 1)
        /\ (pc = "returned" =>
              /\ gs = FreshSearch
              /\ writes >= 1
              /\ store[ThisKey] = Pickle(FreshSearch))

RemakeOverExisting ==
    /\ pc = "returned"
    /\ args.remake
    /\ store0[ThisKey] # Absent
    /\ store0[ThisKey] # store[ThisKey]

\* C3 as stated: after every successful call the artifact at the primary key
\* exists, the returned value equals it, and it equals what a fresh search
\* produces for the inputs and seed of this call.
ReturnedIsFreshSearch ==
    pc = "returned" =>
        /\ store[ThisKey] # Absent
        /\ ret = Unpickle(store[ThisKey])
        /\ ret = FreshSearch

\* C3 amended: after every successful call the artifact at the primary key
\* exists and the returned value equals it; after a cache miss or a forced
\* rebuild it is the fresh search for this call's inputs and seed, after a
\* cache hit it is the artifact that was there before the call, unchanged.
ReturnedIsArtifact ==
    pc = "returned" =>
        /\ store[ThisKey] # Absent
        /\ ret = Unpickle(store[ThisKey])
        /\ IF WasHit THEN store[ThisKey] = store0[ThisKey]
                     ELSE ret = FreshSearch

StaleHit ==
    /\ pc = "returned"
    /\ WasHit
    /\ ret.kind = "search"
    /\ ret # FreshSearch

\* C4 as stated: a returning cache-miss or forced-rebuild call has stored the
\* full result at filename; with save_best the best estimator is stored at
\* best_name and both artifacts are present; without save_best the content at
\* best_name is unchanged.
MissStoresBoth ==
    (pc = "returned" /\ ~WasHit) =>
        /\ store[ThisKey] = Pickle(gs)
        /\ (args.save_best =>
              /\ store[BestKey(args)] = Pickle(BestEstimator(gs))
              /\ store[ThisKey] # Absent)
        /\ (~args.save_best => store[BestKey(args)] = store0[BestKey(args)])

\* C4 amended: the statements about best_name hold when best_name and filename
\* are different files; the full result is stored at filename in every case.
MissStoresBothDistinct ==
    (pc = "returned" /\ ~WasHit) =>
        /\ store[ThisKey] = Pickle(gs)
        /\ (BestKey(args) # ThisKey =>
              /\ (args.save_best =>
                    /\ store[BestKey(args)] = Pickle(BestEstimator(gs))
                    /\ store[ThisKey] # Absent)
              /\ (~args.save_best =>
                    store[BestKey(args)] = store0[BestKey(args)]))

MissWithBest ==
    /\ pc = "returned"
    /\ ~WasHit
    /\ args.save_best
    /\ BestKey(args) # ThisKey
    /\ store0[BestKey(args)] # store[BestKey(args)]

\* C5: the store changes only after gs.fit has completed; when the fit raises
\* or the process is terminated during the search the store is as it was on
\* entry; a write to an unwritable location ends the call in an I/O error,
\* after the search, without a result and without touching the store.
NoWriteBeforeFitCompletes ==
    [][ /\ (store' # store => (gs = FreshSearch /\ fits = 1))
        /\ ((pc' \in {"raised", "killed"} /\ gs' = NoObj) => store' = store0')
        /\ ((pc \in {"dump_best", "dump_full"} /\ ~writable /\ pc' # pc) =>
              \/ pc' = "killed"
              \/ /\ pc' = "raised"
                 /\ err' = "IOError"
                 /\ ret' = NoObj
                 /\ gs' = FreshSearch
                 /\ fits' = 1
                 /\ store' = store)
        /\ (err' = "IOError" => (gs' # NoObj /\ ret' = NoObj))
      ]_vars

WriteFailedAfterFit ==
    /\ pc = "raised"
    /\ err = "IOError"
    /\ ~writable
    /\ gs = FreshSearch
    /\ mpc = "off"

\* C10: from an empty store, with save_best = true and one pair of distinct
\* keys in every call and any write allowed to fail, whenever the primary
\* artifact exists the best-estimator artifact exists.
PrimaryImpliesBest ==
    store[PathJoin(SAVE_DIR, DefaultFilename)] # Absent
        => store[PathJoin(SAVE_DIR, DefaultBestName)] # Absent

BestWithoutPrimaryThenBoth ==
    /\ store[PathJoin(SAVE_DIR, DefaultFilename)] # Absent
    /\ store[PathJoin(SAVE_DIR, DefaultBestName)] # Absent
    /\ pc = "raised"
    /\ err = "IOError"
    /\ writes = 1

\* C6: invocations of split_train_test with the same dataset, target,
\* features, test_size and integer random_state return identical results,
\* whatever the state of the global generator.
SplitDeterministic ==
    (sargs.random_state # PyNone /\ sres1 # NoObj) => sres1 = sres0

SplitRepeated ==
    /\ sargs.random_state # PyNone
    /\ sres1 # NoObj
    /\ sres1.err = ""
    /\ Len(sres1.X_train) >= 2
    /\ sother # NoObj
    /\ sother # sres0

SplitX == FeatureFrame(sargs.df, sargs.features)
SplitY == TargetColumn(sargs.df, sargs.target)

CountsHold(res) ==
    res.err = "" =>
        /\ Len(res.X_train) = Len(res.Y_train)
        /\ Len(res.X_test) = Len(res.Y_test)
        /\ Len(res.X_train) + Len(res.X_test) = Len(SplitX)

SplitMismatchReported ==
    /\ sres0 # NoObj
    /\ ~sargs.check_shape
    /\ Len(sargs.features) > 0
    /\ Len(SplitX) # Len(SplitY)

OutsideInterval(v) == v <= -Threshold \/ v >= Threshold

TofOf(row) == row.vals[Column(df_orig, "loop-tof")]

\* the rows of frame are rows of df_orig, in their original order
InOriginalOrder(rows) ==
    /\ \A i \in 1..Len(rows) :
         \E j \in 1..Len(df_orig.rows) : df_orig.rows[j].index = rows[i].index
    /\ \A i, j \in 1..Len(rows) : i < j => rows[i].index < rows[j].index

Before(tag, first, second) ==
    \A i \in 1..Len(trace) :
        trace[i] = <<tag, second>> =>
            \E j \in 1..(i - 1) : trace[j] = <<tag, first>>

\* C8: in main the filter runs before the encoder and keeps the row order;
\* every value the encoding is applied to is <= -1e-4 or >= 1e-4, and no row
\* with a value strictly inside the interval reaches encoder, split or search.
FilterBeforeEncode ==
    /\ \A i \in 1..Len(encoded) : OutsideInterval(encoded[i])
    /\ \A i \in 1..Len(Tags) : Before(Tags[i], "filter", "encode")
    /\ mpc \in {"encode", "split", "search", "in_search"} =>
          /\ InOriginalOrder(df.rows)
          /\ \A i \in 1..Len(df.rows) : OutsideInterval(TofOf(df.rows[i]))
          /\ \A j \in 1..Len(df_orig.rows) :
                OutsideInterval(TofOf(df_orig.rows[j])) =>
                    \E i \in 1..Len(df.rows) :
                        df.rows[i].index = df_orig.rows[j].index
    /\ mpc \in {"search", "in_search"} =>
          \A r \in {parts.X_train[i] : i \in 1..Len(parts.X_train)}
                   \cup {parts.X_test[i] : i \in 1..Len(parts.X_test)} :
              \E j \in 1..Len(df_orig.rows) :
                 /\ df_orig.rows[j].index = r.index
                 /\ OutsideInterval(TofOf(df_orig.rows[j]))

FilteredThenEncoded ==
    /\ mpc = "split"
    /\ Len(encoded) >= 2
    /\ Len(df.rows) < Len(df_orig.rows)
    /\ \E j \in 1..Len(df_orig.rows) : TofOf(df_orig.rows[j]) = 0

Stages == <<"load", "filter", "encode", "split", "search", "fit",
            "dump_best", "dump_full", "reload">>

RECURSIVE Canon(_)
\* the stages of the tags from index i on, in program order
Canon(i) ==
    IF i > Len(Tags) THEN <<>>
    ELSE [k \in 1..Len(Stages) |-> <<Tags[i], Stages[k]>>] \o Canon(i + 1)

IsPrefix(a, b) == Len(a) <= Len(b) /\ SubSeq(b, 1, Len(a)) = a

TagOfPath(p) == CHOOSE i \in 1..Len(Tags) :
                    p[Len(p) - 1] = SteadyName(Tags[i])

\* C9: main runs the stages of "op" and then of "rc" in order, completes only
\* after every stage of both tags, and once a stage raises nothing further
\* runs and nothing further is written.
MainRunsInOrder ==
    /\ [](/\ IsPrefix(trace, Canon(1))
          /\ (mpc = "done" => trace = Canon(1))
          /\ (mpc = "aborted" => merr # "")
          /\ \A p \in MainPaths :
                store[p] # Absent =>
                    \E i \in 1..Len(trace) :
                        /\ trace[i][1] = Tags[TagOfPath(p)]
                        /\ trace[i][2] \in {"dump_best", "dump_full"})
    /\ [][mpc = "aborted" =>
            (mpc' = "aborted" /\ trace' = trace /\ store' = store)]_vars

AbortedInFirstTag ==
    /\ mpc = "aborted"
    /\ ti = 1
    /\ merr = "IOError"
    /\ writes = 1
    /\ \A i \in 1..Len(trace) : trace[i][1] = "op"

CompletedBothTags ==
    /\ mpc = "done"
    /\ \A p \in MainPaths : store[p] # Absent

----------------------------------------------------------------------------
(* Specifications *)

MainOff ==
    /\ mpc = "off"
    /\ ti = 1
    /\ df_orig = NoObj
    /\ df = NoObj
    /\ features = <<>>
    /\ parts = NoObj
    /\ encoded = <<>>
    /\ merr = ""
    /\ trace = <<>>

CacheIdle ==
    /\ store = [p \in Paths |-> Absent]
    /\ pc = "idle"
    /\ args = NoArgs
    /\ gs = NoObj
    /\ ret = NoObj
    /\ err = ""
    /\ fits = 0
    /\ writes = 0
    /\ store0 = store
    /\ prev = NoPrev
    /\ ncalls = 0

Init ==
    /\ CacheIdle
    /\ writable \in BOOLEAN
    /\ SplitIdle
    /\ MainOff

Next ==
    \/ Call
    \/ Fit
    \/ DumpBest
    \/ DumpFull
    \/ Reload
    \/ Kill
    \/ Chmod
    \/ Finish

Spec == Init /\ [][Next]_vars

NextFixed ==
    \/ CallFixed
    \/ Fit
    \/ DumpBest
    \/ DumpFull
    \/ Reload
    \/ Kill
    \/ Chmod
    \/ Finish

SpecFixed == Init /\ [][NextFixed]_vars

InitSplit ==
    /\ CacheIdle
    /\ writable = TRUE
    /\ MainOff
    /\ sargs \in SplitArgSet
    /\ sres0 = NoObj
    /\ sres1 = NoObj
    /\ sother = NoObj
    /\ npGlobal \in 0..(RngMod - 1)
    /\ nsplit = 0

NextSplit ==
    \/ SplitFirst
    \/ SplitAgain
    \/ SplitUnseeded

SpecSplit == InitSplit /\ [][NextSplit]_vars

InitMain ==
    /\ CacheIdle
    /\ writable \in BOOLEAN
    /\ SplitIdle
    /\ mpc = "load"
    /\ ti = 1
    /\ df_orig = NoObj
    /\ df = NoObj
    /\ features = <<>>
    /\ parts = NoObj
    /\ encoded = <<>>
    /\ merr = ""
    /\ trace = <<>>

NextMain ==
    \/ MainLoad
    \/ MainFilter
    \/ MainEncode
    \/ MainSplit
    \/ MainSearch
    \/ Fit
    \/ DumpBest
    \/ DumpFull
    \/ Reload
    \/ Kill
    \/ Chmod
    \/ MainNext
    \/ MainPropagate

SpecMain == InitMain /\ [][NextMain]_vars

====
